---- MODULE Spec2Model ----
(***************************************************************************)
(* Model of scripts/enhance_entries.py: parse_entry_metadata,              *)
(* save_progress, load_progress, get_entry_key and enhance_journal, with   *)
(* the files they read and write (input, output, progress, temporary       *)
(* progress, cache) and reruns after a normal return, an exception or a    *)
(* kill of the process.                                                    *)
(*                                                                         *)
(* Text is a non-empty sequence of lines ("" is one empty line); a line is *)
(* a 4-tuple whose first component names what the line reads as:           *)
(*   <<"hdr", sep, date, dest>>    "# <date> <sep> <dest>"                 *)
(*   <<"start", loc, "", "">>      "**Start Location:** <loc>"             *)
(*   <<"miles", tok, w, t>>        "**Miles Today:** <w>.<t>" or "N/A"     *)
(*   <<"trip", tok, w, t>>         "**Trip Miles:** <w>.<t>" or "N/A"      *)
(*   <<"text", body, "", "">>      a line of narrative                     *)
(*   <<"blank", "", "", "">>       an empty or whitespace-only line        *)
(*   <<"sep", "", "", "">>         the line "---"                          *)
(*   <<"ctx", text, "", "">>       "Trail Context: <text>"                 *)
(*   <<"facts", text, "", "">>     "Trail Facts: <text>"                   *)
(* A date text is <<weekday, month, day, year>>.                           *)
(***************************************************************************)
EXTENDS Integers, Sequences, FiniteSets, TLC

VARIABLES
    inputFile,            \* content of input_file (text)
    outputFile,           \* output_file: [kind, text]
    progressFile,         \* <output>.progress.json: [kind, processed_entries, enhanced_entries]
    tempFile,             \* <output>.progress.tmp, same shape
    cacheFile,            \* cache_file: [kind, data]; kind "unset" is cache_file=None
    gen,                  \* the injected bedrock_client: [<<kind, key>> -> behaviour]
    pc,                   \* position of the process
    mode,                 \* argument mode of the current run
    entries,              \* content.split('\n---\n') of the current run
    i,                    \* loop ordinal (1-based) in enhance_journal
    processed_entries,    \* set of ordinals
    enhanced_entries,     \* sequence of texts
    processed_entry_map,  \* entry key -> enhanced text
    cache,                \* in-memory cache dict
    metadata,             \* result of parse_entry_metadata for the current entry
    enhanced_entry,       \* text being assembled for the current entry
    context,              \* local context of the current entry
    facts,                \* local facts of the current entry
    genLog,               \* history: generator invocations of the current run
    sleeps,               \* history: time.sleep(1) calls of the current run
    path,                 \* history: how each text of enhanced_entries got there
    loaded,               \* history: what load_progress returned to the current run
    start,                \* history: the files as the current run found them
    prev,                 \* history: how the previous run ended
    runs                  \* number of runs started

vars == <<inputFile, outputFile, progressFile, tempFile, cacheFile, gen, pc, mode, entries, i,
          processed_entries, enhanced_entries, processed_entry_map, cache, metadata,
          enhanced_entry, context, facts, genLog, sleeps, path, loaded, start, prev, runs>>

----------------------------------------------------------------------------
(* Bounds *)

MaxEntries == 2
MaxRuns == 2

----------------------------------------------------------------------------
(* Lines and texts *)

EM_DASH == "EM_DASH"      \* U+2014, what build_journal writes between date and destination
MOJIBAKE == "MOJIBAKE"    \* U+00E2 U+20AC U+201D, the three characters in the header regex

BlankLine == <<"blank", "", "", "">>
SepLine == <<"sep", "", "", "">>
HdrLine(sep, date, dest) == <<"hdr", sep, date, dest>>
StartLine(loc) == <<"start", loc, "", "">>
MilesLine(tok, w, t) == <<"miles", tok, w, t>>
TripLine(tok, w, t) == <<"trip", tok, w, t>>
TextLine(body) == <<"text", body, "", "">>
ContextBlockLine(text) == <<"ctx", text, "", "">>
FactsBlockLine(text) == <<"facts", text, "", "">>

EmptyStr == <<BlankLine>>

Weekdays == {"Monday", "Tuesday", "Wednesday", "Thursday", "Friday", "Saturday", "Sunday"}
MonthNumber(m) ==
    CASE m = "January" -> 1 [] m = "February" -> 2 [] m = "March" -> 3
      [] m = "April" -> 4 [] m = "May" -> 5 [] m = "June" -> 6
      [] m = "July" -> 7 [] m = "August" -> 8 [] m = "September" -> 9
      [] m = "October" -> 10 [] m = "November" -> 11 [] m = "December" -> 12
      [] OTHER -> 0
DaysInMonth(mn, y) ==
    IF mn = 2 THEN (IF (y % 4 = 0 /\ y % 100 /= 0) \/ y % 400 = 0 THEN 29 ELSE 28)
    ELSE IF mn \in {4, 6, 9, 11} THEN 30 ELSE 31

\* datetime.strptime(date_str, "%A, %B %d, %Y") succeeds
StrptimeOk(d) ==
    /\ d[1] \in Weekdays
    /\ MonthNumber(d[2]) /= 0
    /\ d[4] >= 1 /\ d[4] <= 9999
    /\ d[3] >= 1 /\ d[3] <= DaysInMonth(MonthNumber(d[2]), d[4])

\* date_obj.strftime("%Y-%m-%d"): <<year, month, day>> stands for "YYYY-MM-DD"
Strftime(d) == <<d[4], MonthNumber(d[2]), d[3]>>

\* float("<w>.<t>") in tenths
Float(w, t) == 10 * w + t

IsBlankLine(l) == l[1] = "blank"
IsBlank(t) == \A k \in 1..Len(t) : IsBlankLine(t[k])

\* str.strip(): leading and trailing whitespace removed
Strip(t) ==
    IF IsBlank(t) THEN EmptyStr
    ELSE LET nb == {k \in 1..Len(t) : ~IsBlankLine(t[k])}
             lo == CHOOSE k \in nb : \A j \in nb : k <= j
             hi == CHOOSE k \in nb : \A j \in nb : k >= j
         IN SubSeq(t, lo, hi)

\* re.search: the first of the matching line indexes, 0 for no match
First(m) == IF m = {} THEN 0 ELSE CHOOSE k \in m : \A j \in m : k <= j

HeaderMatch(l) == l[1] = "hdr" /\ l[2] = MOJIBAKE
StartMatch(l) == l[1] = "start"
MilesMatch(l) == l[1] = "miles" /\ l[2] = "num"
TotalMatch(l) == l[1] = "trip" /\ l[2] = "num"

parse_entry_metadata(t) ==
    LET h == First({k \in 1..Len(t) : HeaderMatch(t[k])})
        s == First({k \in 1..Len(t) : StartMatch(t[k])})
        m == First({k \in 1..Len(t) : MilesMatch(t[k])})
        tm == First({k \in 1..Len(t) : TotalMatch(t[k])})
        dom == (IF h /= 0 THEN {"destination"} ELSE {})
               \cup (IF h /= 0 /\ StrptimeOk(t[h][3]) THEN {"date"} ELSE {})
               \cup (IF s /= 0 THEN {"start_location"} ELSE {})
               \cup (IF m /= 0 THEN {"miles_hiked"} ELSE {})
               \cup (IF tm /= 0 THEN {"total_miles"} ELSE {})
    IN [f \in dom |->
          CASE f = "destination" -> t[h][4]
            [] f = "date" -> Strftime(t[h][3])
            [] f = "start_location" -> t[s][2]
            [] f = "miles_hiked" -> Float(t[m][3], t[m][4])
            [] f = "total_miles" -> Float(t[tm][3], t[tm][4])]

NoMetadata == [f \in {} |-> ""]

\* get_entry_key raises KeyError unless the three fields are there
HasKeyFields(md) == {"date", "start_location", "destination"} \subseteq DOMAIN md

\* f"{date}_{start_location}_{destination}"
get_entry_key(md) == <<md["date"], md["start_location"], md["destination"]>>

----------------------------------------------------------------------------
(* Files, dicts, split and join *)

Kinds == {"context", "facts"}

EmptyDict == [k \in {} |-> <<>>]
\* an assignment that is lost
Put_Nothing(d, k, v) == d

Put(d, k, v) == [x \in DOMAIN d \cup {k} |-> IF x = k THEN v ELSE d[x]]

\* one key for both kinds
CacheKey_NoKind(kind, key) == <<"context", key>>

\* f"context_{entry_key}", f"facts_{entry_key}"
CacheKey(kind, key) == <<kind, key>>

AbsentProgress == [kind |-> "absent", processed_entries |-> <<>>, enhanced_entries |-> <<>>]
AbsentOutput == [kind |-> "absent", text |-> EmptyStr]

\* a list that forgets the ordinals
SortedList_Dropped(S) == <<>>

RECURSIVE SortedList(_)
\* sorted(list(processed_entries))
SortedList(S) ==
    IF S = {} THEN <<>>
    ELSE LET lo == CHOOSE x \in S : \A y \in S : x <= y
         IN <<lo>> \o SortedList(S \ {lo})

ToSet(q) == {q[k] : k \in 1..Len(q)}

RECURSIVE Join(_)
\* '\n---\n'.join(texts)
Join(texts) ==
    IF texts = <<>> THEN EmptyStr
    ELSE IF Len(texts) = 1 THEN texts[1]
    ELSE texts[1] \o <<SepLine>> \o Join(Tail(texts))

RECURSIVE Split(_)
\* content.split('\n---\n')
Split(content) ==
    LET k == First({j \in 1..Len(content) : content[j] = SepLine})
    IN IF k = 0 THEN <<content>>
       ELSE <<SubSeq(content, 1, k - 1)>> \o Split(SubSeq(content, k + 1, Len(content)))


----------------------------------------------------------------------------
(* Progress tracking *)

\* a record that lags one text behind
ProgressData_WithoutLast(processed, enhanced) ==
    [kind |-> "record", processed_entries |-> SortedList(processed),
     enhanced_entries |-> IF enhanced = <<>> THEN <<>>
                          ELSE SubSeq(enhanced, 1, Len(enhanced) - 1)]

\* progress_data of save_progress, as json.dump writes it
ProgressData(processed, enhanced) ==
    [kind |-> "record", processed_entries |-> SortedList(processed),
     enhanced_entries |-> enhanced]

\* temp_file.open('w') has truncated the file and json.dump has not finished
PartialProgress == [kind |-> "partial", processed_entries |-> <<>>, enhanced_entries |-> <<>>]

\* a move that copies: the target is seen half-written
MovedOnto_Copying(src) == [src EXCEPT !.kind = "partial"]

\* shutil.move(str(temp_file), str(progress_file)): a rename within one directory
MovedOnto(src) == src

\* an unlink that leaves the file where it is
Unlinked_Kept(file) == file

\* progress_file.unlink()
Unlinked(file) == AbsentProgress

(* What a progress file can hold, by kind:
     "absent"         no file
     "record"         a JSON object with both keys, processed_entries a list of ordinals
     "partial"        not valid JSON (half-written, empty, garbage)
     "empty_object"   {}
     "no_processed"   a JSON object without 'processed_entries'
     "no_enhanced"    a JSON object without 'enhanced_entries'
     "array", "null", "number"   valid JSON that is not an object
     "bad_processed"  a JSON object with both keys, processed_entries a number or null *)
JsonDecodeError == {"partial"}
KeyErrorKinds == {"empty_object", "no_processed", "no_enhanced"}
TypeErrorKinds == {"array", "null", "number", "bad_processed"}

EmptyLoad == [processed |-> {}, enhanced |-> <<>>, raised |-> FALSE]

\* load_progress: (set(), []) when the file does not exist or json.load raises
\* JSONDecodeError or the subscript raises KeyError; a TypeError (subscript of a value
\* that is not an object, set() of a value that is not iterable) is not caught
load_progress(file) ==
    IF file.kind = "absent" THEN EmptyLoad
    ELSE IF file.kind \in JsonDecodeError \cup KeyErrorKinds THEN EmptyLoad
    ELSE IF file.kind \in TypeErrorKinds
         THEN [processed |-> {}, enhanced |-> <<>>, raised |-> TRUE]
    ELSE [processed |-> ToSet(file.processed_entries), enhanced |-> file.enhanced_entries,
          raised |-> FALSE]

\* processed_entries, enhanced_entries = load_progress(progress_file) if resume else (set(), [])
LoadOrEmpty(file, resume) == IF resume THEN load_progress(file) ELSE EmptyLoad

RECURSIVE BuildEntryMap(_, _, _)
\* the loop over enumerate(enhanced_entries, 1) that fills processed_entry_map from
\* ordinal k on; a KeyError of get_entry_key is caught and logged
BuildEntryMap(k, ld, m) ==
    IF k > Len(ld.enhanced) THEN m
    ELSE LET md == parse_entry_metadata(ld.enhanced[k])
         IN IF k \in ld.processed /\ DOMAIN md /= {} /\ HasKeyFields(md)
            THEN BuildEntryMap(k + 1, ld, Put(m, get_entry_key(md), ld.enhanced[k]))
            ELSE BuildEntryMap(k + 1, ld, m)

\* if enhanced_entries and len(enhanced_entries) != len(entries)
InputChanged(enhanced, es) == enhanced /= <<>> /\ Len(enhanced) /= Len(es)

\* a reset that forgets processed_entry_map = {}
ResumeState_KeepsMap(ld, es) ==
    IF InputChanged(ld.enhanced, es)
    THEN [processed |-> {}, enhanced |-> <<>>, map |-> BuildEntryMap(1, ld, EmptyDict)]
    ELSE [processed |-> ld.processed, enhanced |-> ld.enhanced,
          map |-> BuildEntryMap(1, ld, EmptyDict)]

\* processed_entries, enhanced_entries, processed_entry_map after the reset check
ResumeState(ld, es) ==
    IF InputChanged(ld.enhanced, es)
    THEN [processed |-> {}, enhanced |-> <<>>, map |-> EmptyDict]
    ELSE [processed |-> ld.processed, enhanced |-> ld.enhanced,
          map |-> BuildEntryMap(1, ld, EmptyDict)]

\* cache = json.loads(cache_file.read_text()) if cache_file and cache_file.exists()
LoadCache(file) == IF file.kind = "dict" THEN file.data ELSE EmptyDict

----------------------------------------------------------------------------
(* Content generation *)

\* what bedrock_client(metadata, kind) returns when it returns text
GenText(kind, key) == <<"generated", kind, key[2], key[3]>>
NoText == <<>>

InMode(kind, m) == m = "both" \/ m = kind

\* a cache that is never consulted
CacheHit_Never(c, ck) == FALSE

\* "if context_key in cache"
CacheHit(c, ck) == ck \in DOMAIN c

\* Get or generate the text of one kind for an entry key (lines 249-267, 274-292):
\* the text, the cache afterwards, whether the generator was invoked and how it ended
GetOrGenerate(kind, key, c, g) ==
    LET ck == CacheKey(kind, key)
    IN IF CacheHit(c, ck)
       THEN [text |-> c[ck], cache |-> c, called |-> FALSE, res |-> "hit"]
       ELSE LET r == g[<<kind, key>>]
                t == IF r = "text" THEN GenText(kind, key) ELSE NoText
            IN [text |-> t,
                cache |-> IF t /= NoText THEN Put(c, ck, t) ELSE c,
                called |-> TRUE, res |-> r]

\* the block appended without "if context:"
AppendContext_Always(e, text) == e \o <<BlankLine, ContextBlockLine(text)>>

\* enhanced_entry += f"\n\nTrail Context: {context}" when context is not empty
AppendContext(e, text) == IF text /= NoText THEN e \o <<BlankLine, ContextBlockLine(text)>> ELSE e
\* enhanced_entry += f"\n\nTrail Facts: {facts}" when facts is not empty
AppendFacts(e, text) == IF text /= NoText THEN e \o <<BlankLine, FactsBlockLine(text)>> ELSE e

\* a cache file that is never written
CacheFileAfter_Unwritten(file, r) == file

\* a delay inside the try block: skipped when the generator raises
SleepsAfter_OnlyOnReturn(n, r) == IF r.called /\ r.res /= "raise" THEN n + 1 ELSE n

\* time.sleep(1) in the branch that invokes the generator, after the try statement
SleepsAfter(n, r) == IF r.called THEN n + 1 ELSE n

\* cache_file.write_text(json.dumps(cache)) happens only with a cache file configured
CacheFileAfter(file, r) ==
    IF r.called /\ r.text /= NoText /\ file.kind /= "unset"
    THEN [kind |-> "dict", data |-> r.cache] ELSE file


----------------------------------------------------------------------------
(* The inputs the model draws from *)

DateA == <<"Thursday", "January", 21, 2010>>
DateB == <<"Friday", "January", 22, 2010>>
UnknownDate == <<"Unknown Date", "", 0, 0>>    \* what extract_entry writes without a date tag

\* an entry the header regex matches
TextA == <<HdrLine(MOJIBAKE, DateA, "Springer Mountain"), StartLine("Amicalola Falls"),
           MilesLine("num", 8, 8), TripLine("num", 8, 8), TextLine("a")>>
\* the same date, start and destination, another body, after an empty line
TextA2 == <<BlankLine, HdrLine(MOJIBAKE, DateA, "Springer Mountain"),
            StartLine("Amicalola Falls"), TextLine("a2")>>
\* another day, between empty lines
TextB == <<BlankLine, HdrLine(MOJIBAKE, DateB, "Hawk Mountain"),
           StartLine("Springer Mountain"), MilesLine("num", 7, 6), TextLine("b"), BlankLine>>
\* a prologue: no header and no labeled field
TextP == <<TextLine("prologue"), BlankLine>>
\* no header line, but a start location
TextR == <<StartLine("Camp"), TextLine("rest day")>>
\* whitespace only
TextBlank == <<BlankLine>>

EntryTexts == {TextA, TextA2, TextB, TextP, TextR, TextBlank}

RECURSIVE SeqsOfLen(_, _)
SeqsOfLen(S, n) ==
    IF n = 0 THEN {<<>>} ELSE {<<x>> \o q : x \in S, q \in SeqsOfLen(S, n - 1)}

Inputs == {Join(q) : q \in UNION {SeqsOfLen(EntryTexts, n) : n \in 1..MaxEntries}}

KeyA == get_entry_key(parse_entry_metadata(TextA))
KeyB == get_entry_key(parse_entry_metadata(TextB))
GenDomain == {<<k, key>> : k \in Kinds, key \in {KeyA, KeyB}}

\* generator stubs: every call returns text; every call raises; mixed
GenAllText == [d \in GenDomain |-> "text"]
GenAllRaise == [d \in GenDomain |-> "raise"]
GenMixed == [d \in GenDomain |->
               IF d = <<"context", KeyA>> THEN "raise"
               ELSE IF d = <<"facts", KeyB>> THEN "empty" ELSE "text"]
GenStubs == {GenAllText, GenAllRaise, GenMixed}

CachedText(d) == <<"cached", d[1], d[2][2], d[2][3]>>
FullCache == [d \in GenDomain |-> CachedText(d)]
CacheFiles == {[kind |-> "unset", data |-> EmptyDict],
               [kind |-> "dict", data |-> FullCache],
               [kind |-> "dict", data |-> [d \in {<<"facts", KeyA>>} |-> CachedText(d)]]}

----------------------------------------------------------------------------
(* State *)

NoLoad == EmptyLoad
NoStart == [progress |-> "absent", cache |-> EmptyDict]
NoPrev == [end |-> "idle", mode |-> "", calls |-> 0, out |-> AbsentOutput, start |-> NoStart]

Modes == {"both", "context", "facts"}

Init ==
    /\ inputFile \in Inputs
    /\ outputFile = AbsentOutput
    /\ progressFile = AbsentProgress
    /\ tempFile = AbsentProgress
    /\ cacheFile \in CacheFiles
    /\ gen \in GenStubs
    /\ pc = "idle"
    /\ mode = ""
    /\ entries = <<>>
    /\ i = 0
    /\ processed_entries = {}
    /\ enhanced_entries = <<>>
    /\ processed_entry_map = EmptyDict
    /\ cache = EmptyDict
    /\ metadata = NoMetadata
    /\ enhanced_entry = EmptyStr
    /\ context = NoText
    /\ facts = NoText
    /\ genLog = <<>>
    /\ sleeps = 0
    /\ path = <<>>
    /\ loaded = NoLoad
    /\ start = NoStart
    /\ prev = NoPrev
    /\ runs = 0

files == <<inputFile, outputFile, progressFile, tempFile, cacheFile, gen>>
history == <<loaded, start, prev, runs, entries>>

Running == pc \in {"loop", "facts", "save", "write", "move", "cleanup"}

\* enhance_journal up to the loop (lines 169-218)
Start(m, r) ==
    /\ pc \in {"idle", "done", "raised", "killed"}
    /\ runs < MaxRuns
    /\ LET ld == LoadOrEmpty(progressFile, r)
           es == Split(inputFile)
           rs == ResumeState(ld, es)
           c == LoadCache(cacheFile)
       IN /\ entries' = es
          /\ processed_entries' = rs.processed
          /\ enhanced_entries' = rs.enhanced
          /\ processed_entry_map' = rs.map
          /\ cache' = c
          /\ loaded' = ld
          /\ path' = [k \in 1..Len(rs.enhanced) |-> [how |-> "loaded", ord |-> k]]
          /\ start' = [progress |-> progressFile.kind, cache |-> c]
    /\ prev' = [end |-> pc, mode |-> mode, calls |-> Len(genLog), out |-> outputFile,
                start |-> start]
    /\ mode' = m
    /\ pc' = (IF LoadOrEmpty(progressFile, r).raised THEN "raised" ELSE "loop")
    /\ i' = 1
    /\ metadata' = NoMetadata
    /\ enhanced_entry' = EmptyStr
    /\ context' = NoText
    /\ facts' = NoText
    /\ genLog' = <<>>
    /\ sleeps' = 0
    /\ runs' = runs + 1
    /\ UNCHANGED files

AtEntry == pc = "loop" /\ i <= Len(entries)

\* "if not entry.strip(): continue"
SkipBlank ==
    /\ AtEntry
    /\ Strip(entries[i]) = EmptyStr
    /\ i' = i + 1
    /\ UNCHANGED <<files, history, pc, mode, processed_entries, enhanced_entries,
                   processed_entry_map, cache, metadata, enhanced_entry, context, facts,
                   genLog, sleeps, path>>

\* "if not metadata": the entry is kept as it is (lines 226-229)
PassThrough ==
    /\ AtEntry
    /\ Strip(entries[i]) /= EmptyStr
    /\ LET md == parse_entry_metadata(entries[i])
       IN /\ DOMAIN md = {}
          /\ metadata' = md
    /\ enhanced_entries' = Append(enhanced_entries, entries[i])
    /\ processed_entries' = processed_entries \cup {i}
    /\ path' = Append(path, [how |-> "pass", ord |-> i])
    /\ pc' = "save"
    /\ UNCHANGED <<files, history, mode, i, processed_entry_map, cache, enhanced_entry,
                   context, facts, genLog, sleeps>>

\* get_entry_key(metadata) raises KeyError outside the try block (line 234)
KeyErrorAbort ==
    /\ AtEntry
    /\ Strip(entries[i]) /= EmptyStr
    /\ LET md == parse_entry_metadata(entries[i])
       IN /\ DOMAIN md /= {}
          /\ ~HasKeyFields(md)
          /\ metadata' = md
    /\ pc' = "raised"
    /\ UNCHANGED <<files, history, mode, i, processed_entries, enhanced_entries,
                   processed_entry_map, cache, enhanced_entry, context, facts, genLog,
                   sleeps, path>>

\* "if entry_key in processed_entry_map" (lines 235-238)
Replay ==
    /\ AtEntry
    /\ Strip(entries[i]) /= EmptyStr
    /\ LET md == parse_entry_metadata(entries[i])
       IN /\ DOMAIN md /= {}
          /\ HasKeyFields(md)
          /\ get_entry_key(md) \in DOMAIN processed_entry_map
          /\ metadata' = md
          /\ enhanced_entries' =
                Append(enhanced_entries, processed_entry_map[get_entry_key(md)])
    /\ processed_entries' = processed_entries \cup {i}
    /\ path' = Append(path, [how |-> "replay", ord |-> i])
    /\ pc' = "save"
    /\ UNCHANGED <<files, history, mode, i, processed_entry_map, cache, enhanced_entry,
                   context, facts, genLog, sleeps>>

LogCall(log, r, kind, ord) ==
    IF r.called THEN Append(log, [ord |-> ord, kind |-> kind, res |-> r.res]) ELSE log

\* enhanced_entry = entry.strip() and the context part (lines 243-270)
EnrichContext ==
    /\ AtEntry
    /\ Strip(entries[i]) /= EmptyStr
    /\ LET md == parse_entry_metadata(entries[i])
       IN /\ DOMAIN md /= {}
          /\ HasKeyFields(md)
          /\ get_entry_key(md) \notin DOMAIN processed_entry_map
          /\ metadata' = md
          /\ IF InMode("context", mode)
             THEN LET r == GetOrGenerate("context", get_entry_key(md), cache, gen)
                  IN /\ context' = r.text
                     /\ cache' = r.cache
                     /\ cacheFile' = CacheFileAfter(cacheFile, r)
                     /\ genLog' = LogCall(genLog, r, "context", i)
                     /\ sleeps' = SleepsAfter(sleeps, r)
                     /\ enhanced_entry' = AppendContext(Strip(entries[i]), r.text)
             ELSE /\ enhanced_entry' = Strip(entries[i])
                  /\ context' = NoText
                  /\ UNCHANGED <<cache, cacheFile, genLog, sleeps>>
    /\ facts' = NoText
    /\ pc' = "facts"
    /\ UNCHANGED <<inputFile, outputFile, progressFile, tempFile, gen, history, mode, i,
                   processed_entries, enhanced_entries, processed_entry_map, path>>

\* the facts part and the entry's bookkeeping (lines 272-300)
EnrichFacts ==
    /\ pc = "facts"
    /\ LET key == get_entry_key(metadata)
       IN IF InMode("facts", mode)
          THEN LET r == GetOrGenerate("facts", key, cache, gen)
                   e == AppendFacts(enhanced_entry, r.text)
               IN /\ facts' = r.text
                  /\ cache' = r.cache
                  /\ cacheFile' = CacheFileAfter(cacheFile, r)
                  /\ genLog' = LogCall(genLog, r, "facts", i)
                  /\ sleeps' = SleepsAfter(sleeps, r)
                  /\ enhanced_entry' = e
                  /\ enhanced_entries' = Append(enhanced_entries, e)
                  /\ processed_entry_map' = Put(processed_entry_map, key, e)
          ELSE /\ enhanced_entries' = Append(enhanced_entries, enhanced_entry)
               /\ processed_entry_map' = Put(processed_entry_map, key, enhanced_entry)
               /\ UNCHANGED <<facts, cache, cacheFile, genLog, sleeps, enhanced_entry>>
    /\ processed_entries' = processed_entries \cup {i}
    /\ path' = Append(path, [how |-> "enriched", ord |-> i])
    /\ pc' = "save"
    /\ UNCHANGED <<inputFile, outputFile, progressFile, tempFile, gen, history, mode, i,
                   metadata, context>>

\* save_progress: temp_file.open('w') (lines 118-127)
OpenTemp ==
    /\ pc = "save"
    /\ tempFile' = PartialProgress
    /\ pc' = "write"
    /\ UNCHANGED <<inputFile, outputFile, progressFile, cacheFile, gen, history, mode, i,
                   processed_entries, enhanced_entries, processed_entry_map, cache,
                   metadata, enhanced_entry, context, facts, genLog, sleeps, path>>

\* save_progress: json.dump into the temporary file, and its close (lines 127-128)
WriteTemp ==
    /\ pc = "write"
    /\ tempFile' = ProgressData(processed_entries, enhanced_entries)
    /\ pc' = "move"
    /\ UNCHANGED <<inputFile, outputFile, progressFile, cacheFile, gen, history, mode, i,
                   processed_entries, enhanced_entries, processed_entry_map, cache,
                   metadata, enhanced_entry, context, facts, genLog, sleeps, path>>

\* save_progress: shutil.move(temp_file, progress_file); the loop goes on (line 131)
MoveTemp ==
    /\ pc = "move"
    /\ progressFile' = MovedOnto(tempFile)
    /\ tempFile' = AbsentProgress
    /\ i' = i + 1
    /\ pc' = "loop"
    /\ UNCHANGED <<inputFile, outputFile, cacheFile, gen, history, mode,
                   processed_entries, enhanced_entries, processed_entry_map, cache,
                   metadata, enhanced_entry, context, facts, genLog, sleeps, path>>

\* output_file.write_text('\n---\n'.join(enhanced_entries)) (line 310)
WriteOutput ==
    /\ pc = "loop"
    /\ i > Len(entries)
    /\ outputFile' = [kind |-> "file", text |-> Join(enhanced_entries)]
    /\ pc' = "cleanup"
    /\ UNCHANGED <<inputFile, progressFile, tempFile, cacheFile, gen, history, mode, i,
                   processed_entries, enhanced_entries, processed_entry_map, cache,
                   metadata, enhanced_entry, context, facts, genLog, sleeps, path>>

\* "if progress_file.exists(): progress_file.unlink()" (lines 314-315)
Cleanup ==
    /\ pc = "cleanup"
    /\ progressFile' = (IF progressFile.kind /= "absent" THEN Unlinked(progressFile)
                        ELSE progressFile)
    /\ pc' = "done"
    /\ UNCHANGED <<inputFile, outputFile, tempFile, cacheFile, gen, history, mode, i,
                   processed_entries, enhanced_entries, processed_entry_map, cache,
                   metadata, enhanced_entry, context, facts, genLog, sleeps, path>>

\* the process is killed: its memory is gone, the files stay as they are
Kill ==
    /\ Running
    /\ pc' = "killed"
    /\ entries' = <<>>
    /\ i' = 0
    /\ processed_entries' = {}
    /\ enhanced_entries' = <<>>
    /\ processed_entry_map' = EmptyDict
    /\ cache' = EmptyDict
    /\ metadata' = NoMetadata
    /\ enhanced_entry' = EmptyStr
    /\ context' = NoText
    /\ facts' = NoText
    /\ genLog' = <<>>
    /\ sleeps' = 0
    /\ path' = <<>>
    /\ loaded' = NoLoad
    /\ start' = NoStart
    /\ UNCHANGED <<files, mode, prev, runs>>

Next ==
    \/ \E m \in Modes, r \in BOOLEAN : Start(m, r)
    \/ SkipBlank
    \/ PassThrough
    \/ KeyErrorAbort
    \/ Replay
    \/ EnrichContext
    \/ EnrichFacts
    \/ OpenTemp
    \/ WriteTemp
    \/ MoveTemp
    \/ WriteOutput
    \/ Cleanup
    \/ Kill

Spec == Init /\ [][Next]_vars


----------------------------------------------------------------------------
(* The loop of enhance_journal as a function of the state it starts from   *)
(* (lines 221-302): the reference a run is compared with.                  *)

KindOff(c) == [text |-> NoText, cache |-> c, called |-> FALSE, res |-> "off"]

RECURSIVE RunLoop(_, _, _, _, _)
RunLoop(k, st, es, m, g) ==
    IF k > Len(es) THEN st
    ELSE IF Strip(es[k]) = EmptyStr THEN RunLoop(k + 1, st, es, m, g)
    ELSE LET md == parse_entry_metadata(es[k])
         IN IF DOMAIN md = {}
            THEN RunLoop(k + 1, [st EXCEPT !.enhanced = Append(@, es[k])], es, m, g)
            ELSE IF ~HasKeyFields(md) THEN [st EXCEPT !.raised = TRUE]
            ELSE LET key == get_entry_key(md)
                 IN IF key \in DOMAIN st.map
                    THEN RunLoop(k + 1, [st EXCEPT !.enhanced = Append(@, st.map[key])],
                                 es, m, g)
                    ELSE LET rc == IF InMode("context", m)
                                   THEN GetOrGenerate("context", key, st.cache, g)
                                   ELSE KindOff(st.cache)
                             e1 == AppendContext(Strip(es[k]), rc.text)
                             rf == IF InMode("facts", m)
                                   THEN GetOrGenerate("facts", key, rc.cache, g)
                                   ELSE KindOff(rc.cache)
                             e2 == AppendFacts(e1, rf.text)
                         IN RunLoop(k + 1,
                                    [enhanced |-> Append(st.enhanced, e2),
                                     map |-> Put(st.map, key, e2),
                                     cache |-> rf.cache,
                                     calls |-> LogCall(LogCall(st.calls, rc, "context", k),
                                                       rf, "facts", k),
                                     raised |-> FALSE],
                                    es, m, g)

\* a run that finds no progress file
FreshRun(es, m, c, g) ==
    RunLoop(1, [enhanced |-> <<>>, map |-> EmptyDict, cache |-> c, calls |-> <<>>,
                raised |-> FALSE], es, m, g)

----------------------------------------------------------------------------
(* parse_entry_metadata on its own: one call on one entry text *)

FebruaryThirtieth == <<"Tuesday", "February", 30, 2010>>    \* strptime raises ValueError

HeaderChoices ==
    {<<>>,
     <<HdrLine(EM_DASH, DateA, "Springer Mountain")>>,
     <<HdrLine(MOJIBAKE, DateA, "Springer Mountain")>>,
     <<HdrLine(MOJIBAKE, UnknownDate, "N/A")>>,
     <<HdrLine(MOJIBAKE, FebruaryThirtieth, "Neels Gap")>>}
StartChoices == {<<>>, <<StartLine("Amicalola Falls")>>}
MilesChoices == {<<>>, <<MilesLine("N/A", 0, 0)>>, <<MilesLine("num", 8, 8)>>}
TripChoices == {<<>>, <<TripLine("N/A", 0, 0)>>, <<TripLine("num", 8, 8)>>}

ParseTexts ==
    {h \o s \o m \o t \o <<TextLine("body")>> :
        h \in HeaderChoices, s \in StartChoices, m \in MilesChoices, t \in TripChoices}

ParseInit ==
    /\ inputFile \in ParseTexts
    /\ outputFile = AbsentOutput
    /\ progressFile = AbsentProgress
    /\ tempFile = AbsentProgress
    /\ cacheFile = [kind |-> "unset", data |-> EmptyDict]
    /\ gen = GenAllText
    /\ pc = "parse"
    /\ mode = ""
    /\ entries = <<>>
    /\ i = 0
    /\ processed_entries = {}
    /\ enhanced_entries = <<>>
    /\ processed_entry_map = EmptyDict
    /\ cache = EmptyDict
    /\ metadata = NoMetadata
    /\ enhanced_entry = EmptyStr
    /\ context = NoText
    /\ facts = NoText
    /\ genLog = <<>>
    /\ sleeps = 0
    /\ path = <<>>
    /\ loaded = NoLoad
    /\ start = NoStart
    /\ prev = NoPrev
    /\ runs = 0

\* metadata = parse_entry_metadata(entry_text)
ParseEntry ==
    /\ pc = "parse"
    /\ metadata' = parse_entry_metadata(inputFile)
    /\ pc' = "parsed"
    /\ UNCHANGED <<files, history, mode, i, processed_entries, enhanced_entries,
                   processed_entry_map, cache, enhanced_entry, context, facts, genLog,
                   sleeps, path>>

ParseNext == ParseEntry

SpecParse == ParseInit /\ [][ParseNext]_vars

----------------------------------------------------------------------------
(* load_progress on its own: one call on one progress file *)

StoredTexts == {TextA, TextP, TextB \o <<BlankLine, FactsBlockLine(GenText("facts", KeyB))>>}
StoredLists == UNION {SeqsOfLen(StoredTexts, n) : n \in 0..MaxEntries}

ProgressContents ==
    {[kind |-> "record", processed_entries |-> SortedList(S), enhanced_entries |-> q] :
        S \in SUBSET (1..MaxEntries), q \in StoredLists}
    \cup {[kind |-> k, processed_entries |-> <<>>, enhanced_entries |-> <<>>] :
            k \in {"absent"} \cup JsonDecodeError \cup KeyErrorKinds \cup TypeErrorKinds}

LoadInit ==
    /\ inputFile = TextA
    /\ outputFile = AbsentOutput
    /\ progressFile \in ProgressContents
    /\ tempFile = AbsentProgress
    /\ cacheFile = [kind |-> "unset", data |-> EmptyDict]
    /\ gen = GenAllText
    /\ pc = "load"
    /\ mode = ""
    /\ entries = <<>>
    /\ i = 0
    /\ processed_entries = {}
    /\ enhanced_entries = <<>>
    /\ processed_entry_map = EmptyDict
    /\ cache = EmptyDict
    /\ metadata = NoMetadata
    /\ enhanced_entry = EmptyStr
    /\ context = NoText
    /\ facts = NoText
    /\ genLog = <<>>
    /\ sleeps = 0
    /\ path = <<>>
    /\ loaded = NoLoad
    /\ start = NoStart
    /\ prev = NoPrev
    /\ runs = 0

\* processed_entries, enhanced_entries = load_progress(progress_file)
LoadProgress ==
    /\ pc = "load"
    /\ LET ld == load_progress(progressFile)
       IN /\ loaded' = ld
          /\ processed_entries' = ld.processed
          /\ enhanced_entries' = ld.enhanced
          /\ pc' = (IF ld.raised THEN "raised" ELSE "loaded")
    /\ UNCHANGED <<files, start, prev, runs, entries, mode, i, processed_entry_map, cache,
                   metadata, enhanced_entry, context, facts, genLog, sleeps, path>>

LoadNext == LoadProgress

SpecLoad == LoadInit /\ [][LoadNext]_vars

----------------------------------------------------------------------------
(* Vocabulary of the claims *)

HasBlock(t, tag) == \E j \in 1..Len(t) : t[j][1] = tag
HasHeaderLine(t) == \E j \in 1..Len(t) : t[j][1] = "hdr"
StartsWith(t, s) == Len(t) >= Len(s) /\ SubSeq(t, 1, Len(s)) = s
IsNonBlankText(t) == Strip(t) /= EmptyStr
KeyOrNone(t) ==
    IF HasKeyFields(parse_entry_metadata(t)) THEN get_entry_key(parse_entry_metadata(t))
    ELSE <<>>
NonBlank(es) == SelectSeq(es, IsNonBlankText)

\* the entries of the output file; the empty file holds none
OutputEntries == IF outputFile.text = EmptyStr THEN <<>> ELSE Split(outputFile.text)

\* entry k has been dealt with by the current run
Examined(k) == k < i \/ (k = i /\ pc \in {"facts", "save", "write", "move", "raised"})

Interrupted == prev.end \in {"killed", "raised"}

\* the run goes on from a progress record that the reset check kept
ResumedFromFile == loaded.enhanced /= <<>> /\ Len(loaded.enhanced) = Len(entries)
\* the reset check found the counts to differ
CountMismatch == loaded.enhanced /= <<>> /\ Len(loaded.enhanced) /= Len(entries)

\* the generator raised for an invocation made for entry k
RaisedFor(k, kind) ==
    \E j \in 1..Len(genLog) :
        genLog[j].ord = k /\ genLog[j].kind = kind /\ genLog[j].res = "raise"

\* the generator with every failure taken away
GenRepaired == [d \in DOMAIN gen |-> IF gen[d] = "raise" THEN "text" ELSE gen[d]]

\* the cache as the run found it holds every text the mode asks for
CacheHoldsAll(c, es, m) ==
    \A k \in 1..Len(es) :
        LET md == parse_entry_metadata(es[k])
        IN (IsNonBlankText(es[k]) /\ HasKeyFields(md)) =>
              \A kind \in Kinds :
                  InMode(kind, m) => CacheKey(kind, get_entry_key(md)) \in DOMAIN c

\* the text of one kind for a key: the cached one, else the generated one
ContentFor(kind, key) ==
    IF CacheKey(kind, key) \in DOMAIN start.cache THEN start.cache[CacheKey(kind, key)]
    ELSE IF gen[<<kind, key>>] = "text" THEN GenText(kind, key) ELSE NoText

\* text t followed by the blocks the mode and the texts call for, context first
WithBlocks(t, key) ==
    LET tc == IF InMode("context", mode) THEN ContentFor("context", key) ELSE NoText
        tf == IF InMode("facts", mode) THEN ContentFor("facts", key) ELSE NoText
        e1 == IF tc /= NoText THEN t \o <<BlankLine, <<"ctx", tc, "", "">>>> ELSE t
    IN IF tf /= NoText THEN e1 \o <<BlankLine, <<"facts", tf, "", "">>>> ELSE e1

JustEnriched ==
    pc = "save" /\ path /= <<>> /\ path[Len(path)] = [how |-> "enriched", ord |-> i]


----------------------------------------------------------------------------
(* Claims about enhance_journal *)

(* C1: a run that resumes, in the same mode and on the same input, from the
   progress file an interrupted run left with fewer texts than the input has
   non-blank entries invokes the generator for no entry the file marks
   processed, and its output is that of a run from scratch. *)
C1_ResumeRunsOnlyRemaining ==
    (/\ pc = "done" /\ Interrupted /\ prev.mode = mode
     /\ loaded.enhanced /= <<>> /\ Len(loaded.enhanced) < Len(NonBlank(entries))) =>
        /\ \A j \in 1..Len(genLog) : genLog[j].ord \notin loaded.processed
        /\ outputFile.text = Join(FreshRun(entries, mode, start.cache, gen).enhanced)

(* C2: in a run that finds no progress file and returns, an entry for which
   the generator raised is its stripped text without the block of the failed
   kind, and every entry for which it did not raise is what it is in the run
   whose generator never raises; no run is aborted by the generator. *)
C2_FailureIsolated ==
    /\ (pc = "raised" => \A kind \in Kinds : ~RaisedFor(i, kind))
    /\ (pc = "done" /\ loaded.enhanced = <<>>) =>
          LET ref == FreshRun(entries, mode, start.cache, GenRepaired).enhanced
          IN \A p \in 1..Len(enhanced_entries) :
                LET k == path[p].ord
                IN IF \E kind \in Kinds : RaisedFor(k, kind)
                   THEN /\ StartsWith(enhanced_entries[p], Strip(entries[k]))
                        /\ RaisedFor(k, "context") => ~HasBlock(enhanced_entries[p], "ctx")
                        /\ RaisedFor(k, "facts") => ~HasBlock(enhanced_entries[p], "facts")
                   ELSE enhanced_entries[p] = ref[p]

(* C3: two runs in a row on the same input and in the same mode, each finding
   no progress file and a cache with every text the mode asks for, write the
   same output file and never invoke the generator. *)
C3_Idempotent ==
    (/\ pc = "done" /\ prev.end = "done" /\ prev.mode = mode
     /\ start.progress = "absent" /\ prev.start.progress = "absent"
     /\ CacheHoldsAll(prev.start.cache, entries, mode)
     /\ CacheHoldsAll(start.cache, entries, mode)) =>
        /\ outputFile = prev.out
        /\ genLog = <<>>
        /\ prev.calls = 0

C3_Witness ==
    /\ pc = "done" /\ prev.end = "done" /\ prev.mode = mode /\ mode = "both"
    /\ start.progress = "absent" /\ prev.start.progress = "absent"
    /\ CacheHoldsAll(prev.start.cache, entries, mode)
    /\ \E p \in 1..Len(path) : path[p].how = "enriched"
    /\ \E p \in 1..Len(OutputEntries) :
          HasBlock(OutputEntries[p], "ctx") /\ HasBlock(OutputEntries[p], "facts")

(* C4: the output of a run in mode "facts" has no entry with a Trail Context
   block and the output of a run in mode "context" none with a Trail Facts
   block (no input entry of the model carries either block). *)
C4_ModeScoping ==
    pc = "done" =>
        \A p \in 1..Len(OutputEntries) :
            /\ mode = "facts" => ~HasBlock(OutputEntries[p], "ctx")
            /\ mode = "context" => ~HasBlock(OutputEntries[p], "facts")

(* C5: an entry without a header line parses to the empty record, does not
   abort the run, reaches no generator call, and is appended as it is with
   its ordinal marked processed. *)
C5_HeaderlessPassesThrough ==
    \A k \in 1..Len(entries) :
        (Examined(k) /\ IsNonBlankText(entries[k]) /\ ~HasHeaderLine(entries[k])) =>
            /\ parse_entry_metadata(entries[k]) = NoMetadata
            /\ ~(pc = "raised" /\ i = k)
            /\ \A j \in 1..Len(genLog) : genLog[j].ord /= k
            /\ k \in processed_entries
            /\ \E p \in 1..Len(path) :
                  path[p] = [how |-> "pass", ord |-> k] /\ enhanced_entries[p] = entries[k]

(* C6: an entry whose metadata lacks date, start_location or destination is
   not enriched: no generator call is made for it, and the run does not
   abort on it but goes on to the next entry. *)
C6_PartialMetadataIsSoft ==
    \A k \in 1..Len(entries) :
        (/\ Examined(k) /\ IsNonBlankText(entries[k])
         /\ ~HasKeyFields(parse_entry_metadata(entries[k]))) =>
            /\ ~(pc = "raised" /\ i = k)
            /\ \A j \in 1..Len(genLog) : genLog[j].ord /= k
            /\ \A p \in 1..Len(path) : path[p].ord = k => path[p].how /= "enriched"

(* C7: when the loaded progress record holds another number of texts than
   the input has entries, the run starts from the empty resume state, and
   its output and its generator invocations are those of a run that finds no
   progress file. *)
C7_MismatchStartsFresh ==
    CountMismatch =>
        LET ref == FreshRun(entries, mode, start.cache, gen)
        IN /\ (pc = "loop" /\ i = 1) =>
                 /\ processed_entries = {}
                 /\ enhanced_entries = <<>>
                 /\ processed_entry_map = EmptyDict
           /\ pc = "done" =>
                 /\ outputFile.text = Join(ref.enhanced)
                 /\ genLog = ref.calls
                 /\ ~ref.raised
           /\ pc = "raised" => ref.raised /\ genLog = ref.calls

C7_Witness ==
    /\ CountMismatch /\ pc = "done"
    /\ \E j \in 1..Len(genLog) : genLog[j].ord \in loaded.processed

(* C8: the output file of a run holds as many entries as the input has
   non-blank entries, and the entry at each position has the Entry Key (or
   the lack of one) of the input entry at that position. *)
C8_OneOutputEntryPerInputEntry ==
    pc = "done" =>
        LET nb == NonBlank(entries)
        IN /\ Len(OutputEntries) = Len(nb)
           /\ \A p \in 1..Len(nb) :
                 p <= Len(OutputEntries) => KeyOrNone(OutputEntries[p]) = KeyOrNone(nb[p])

(* C9 as stated: the text appended for an enriched entry is the entry's text
   as the input has it, followed by the blocks. *)
C9_OriginalTextThenBlocks ==
    JustEnriched =>
        enhanced_entries[Len(enhanced_entries)] =
            WithBlocks(entries[i], get_entry_key(metadata))

(* C9 amended: the text appended for an enriched entry is the entry's text
   stripped of leading and trailing whitespace, then a Trail Context block
   iff the mode has context and the context text is not empty, then a Trail
   Facts block iff the mode has facts and the facts text is not empty. *)
C9_StrippedTextThenBlocks ==
    JustEnriched =>
        enhanced_entries[Len(enhanced_entries)] =
            WithBlocks(Strip(entries[i]), get_entry_key(metadata))

C9_Witness ==
    /\ JustEnriched
    /\ Strip(entries[i]) /= entries[i]
    /\ mode = "both"
    /\ HasBlock(enhanced_entries[Len(enhanced_entries)], "facts")
    /\ ~HasBlock(enhanced_entries[Len(enhanced_entries)], "ctx")

----------------------------------------------------------------------------
(* Claims about parse_entry_metadata *)

(* C10: for an entry text with a header line whose date strptime accepts, a
   start-location line, a numeric Miles Today and a numeric Trip Miles,
   parse_entry_metadata returns exactly the five fields, each with the value
   the text has (the date in ISO form). *)
C10_FullEntryParses ==
    pc = "parsed" =>
        LET t == inputFile
            h == First({k \in 1..Len(t) : t[k][1] = "hdr"})
            s == First({k \in 1..Len(t) : t[k][1] = "start"})
            m == First({k \in 1..Len(t) : t[k][1] = "miles" /\ t[k][2] = "num"})
            tm == First({k \in 1..Len(t) : t[k][1] = "trip" /\ t[k][2] = "num"})
        IN (h /= 0 /\ StrptimeOk(t[h][3]) /\ s /= 0 /\ m /= 0 /\ tm /= 0) =>
              metadata = [date |-> <<t[h][3][4], MonthNumber(t[h][3][2]), t[h][3][3]>>,
                          destination |-> t[h][4],
                          start_location |-> t[s][2],
                          miles_hiked |-> 10 * t[m][3] + t[m][4],
                          total_miles |-> 10 * t[tm][3] + t[tm][4]]

----------------------------------------------------------------------------
(* Claims about progress tracking *)

(* C11: the file under the canonical progress name is never half-written: it
   is absent or a complete record at every moment, a kill in the middle of a
   save included, and whenever it changes it becomes absent or the complete
   record of the save in progress. *)
C11_ProgressFileNeverPartial ==
    /\ [](progressFile.kind \in {"absent", "record"})
    /\ [][progressFile' /= progressFile =>
             \/ progressFile' = AbsentProgress
             \/ progressFile' = ProgressData(processed_entries, enhanced_entries)]_vars

C11_Witness ==
    /\ pc = "killed"
    /\ tempFile.kind = "partial"
    /\ progressFile.kind = "record"

\* every non-blank entry of the input has been resolved by the current run
AllResolved ==
    \A k \in 1..Len(entries) :
        IsNonBlankText(entries[k]) =>
            \E p \in 1..Len(path) : path[p].ord = k /\ path[p].how /= "loaded"

(* C12: the output file is written only when every entry has been resolved,
   the progress file is removed only after the output file has been written
   with the texts of the run, and after a run that returned the progress
   file is absent. *)
C12_CompletionOrdering ==
    /\ [](pc = "done" => progressFile.kind = "absent")
    /\ [][/\ outputFile' /= outputFile => (pc = "loop" /\ i > Len(entries) /\ AllResolved)
          /\ (progressFile.kind /= "absent" /\ progressFile'.kind = "absent") =>
                /\ pc = "cleanup"
                /\ outputFile = [kind |-> "file", text |-> Join(enhanced_entries)]
                /\ UNCHANGED outputFile]_vars

C12_Witness ==
    /\ pc = "done"
    /\ prev.end = "killed"
    /\ start.progress = "record"
    /\ outputFile.kind = "file"
    /\ Len(OutputEntries) >= 2

(* C13: whatever the progress file holds, load_progress does not raise, and
   it returns the stored processed set and texts or the empty state. *)
C13_LoadNeverRaises ==
    pc \in {"loaded", "raised"} =>
        /\ pc /= "raised"
        /\ \/ loaded.processed = {} /\ loaded.enhanced = <<>>
           \/ /\ progressFile.kind = "record"
              /\ loaded.processed = ToSet(progressFile.processed_entries)
              /\ loaded.enhanced = progressFile.enhanced_entries

\* the text at position p of enhanced_entries and its ordinal are in the progress file
Persisted(p) ==
    /\ progressFile.kind = "record"
    /\ p <= Len(progressFile.enhanced_entries)
    /\ progressFile.enhanced_entries[p] = enhanced_entries[p]
    /\ path[p].ord \in ToSet(progressFile.processed_entries)

\* the entries the current run resolved that the progress file does not have
NotPersisted == {p \in 1..Len(path) : path[p].how /= "loaded" /\ ~Persisted(p)}

(* C14: when the loop turns to the next entry, every entry the run has
   resolved is in the progress file with its ordinal and its text, the file
   being the record of the run's state; and at every moment of the loop at
   most one resolved entry is missing from the file. *)
C14_ProgressAfterEveryEntry ==
    /\ (pc = "loop" /\ \E p \in 1..Len(path) : path[p].how /= "loaded") =>
          /\ NotPersisted = {}
          /\ progressFile = ProgressData(processed_entries, enhanced_entries)
    /\ pc \in {"loop", "facts", "save", "write", "move", "raised"} =>
          Cardinality(NotPersisted) <= 1

C14_Witness ==
    /\ pc = "move"
    /\ Cardinality(NotPersisted) = 1
    /\ \E p \in 1..Len(path) : path[p].how = "enriched" /\ Persisted(p)
    /\ path[Len(path)].how = "replay"

(* C15: in the progress file, the text at position k is the result for input
   entry k (it has that entry's Entry Key, or like it none) and k is in the
   processed set. *)
C15_RecordAlignedByOrdinal ==
    progressFile.kind = "record" =>
        LET es == Split(inputFile)
        IN \A k \in 1..Len(progressFile.enhanced_entries) :
              /\ k \in ToSet(progressFile.processed_entries)
              /\ k <= Len(es)
              /\ KeyOrNone(progressFile.enhanced_entries[k]) = KeyOrNone(es[k])

(* C16: a blank piece of the input is skipped without a trace (no text
   appended for it, its ordinal not marked by the run, no generator call),
   and it does not count as an entry when the number of stored texts is
   compared with the input: a progress file with as many texts as the input
   has non-blank entries is kept. *)
C16_BlankEntriesNotCounted ==
    /\ \A k \in 1..Len(entries) :
          (k < i /\ ~IsNonBlankText(entries[k])) =>
              /\ \A p \in 1..Len(path) : path[p].how /= "loaded" => path[p].ord /= k
              /\ \A j \in 1..Len(genLog) : genLog[j].ord /= k
              /\ k \in processed_entries => k \in loaded.processed
    /\ (/\ pc = "loop" /\ i = 1
        /\ loaded.enhanced /= <<>>
        /\ Len(loaded.enhanced) = Len(NonBlank(entries))) =>
           /\ enhanced_entries = loaded.enhanced
           /\ processed_entries = loaded.processed

----------------------------------------------------------------------------
(* Claims about errors, the cache and the delay *)

(* C17: when an error aborts the loop at an entry, the output file is what it
   was when the run started, a progress file that was there is still there,
   and the progress file is the record of the ordinals and texts of every
   entry the run resolved before. *)
C17_AbortKeepsProgress ==
    pc = "raised" =>
        /\ outputFile = prev.out
        /\ start.progress = "record" => progressFile.kind = "record"
        /\ NotPersisted = {}
        /\ (\E p \in 1..Len(path) : path[p].how /= "loaded") =>
              progressFile = ProgressData(processed_entries, enhanced_entries)

C17_Witness ==
    /\ pc = "raised"
    /\ i = 2
    /\ progressFile.kind = "record"
    /\ \E p \in 1..Len(path) : path[p] = [how |-> "enriched", ord |-> 1]

\* the last line of text t is the block of the kind with the given text
EndsWithBlock(t, tag, text) == Len(t) >= 2 /\ t[Len(t)] = <<tag, text, "", "">>

\* a step that gets the text of one kind for the entry with the given key: the
\* generator is invoked iff the kind's key is not in the cache, and on a hit the
\* text is the cached one and, unless empty, the text of the block
CacheFirstStep(kind, tag, key, got) ==
    IF InMode(kind, mode)
    THEN IF <<kind, key>> \in DOMAIN cache
         THEN /\ genLog' = genLog
              /\ got = cache[<<kind, key>>]
              /\ got /= NoText => EndsWithBlock(enhanced_entry', tag, cache[<<kind, key>>])
         ELSE /\ Len(genLog') = Len(genLog) + 1
              /\ genLog'[Len(genLog')].kind = kind
              /\ genLog'[Len(genLog')].ord = i
    ELSE genLog' = genLog /\ ~EndsWithBlock(enhanced_entry', tag, got)

(* C18: for an entry that is enriched and each kind the mode asks for, the
   generator is invoked iff the key of that kind and entry is not in the
   cache at that moment, and on a hit the block holds the text cached under
   the key of that kind (never the one cached under the other kind). *)
C18_CacheFirst ==
    [][/\ (pc = "loop" /\ pc' = "facts") =>
             CacheFirstStep("context", "ctx", get_entry_key(metadata'), context')
       /\ (pc = "facts" /\ pc' = "save") =>
             CacheFirstStep("facts", "facts", get_entry_key(metadata), facts')]_vars

C18_Witness ==
    /\ JustEnriched
    /\ mode = "both"
    /\ context = GenText("context", KeyA)
    /\ facts = CachedText(<<"facts", KeyA>>)
    /\ genLog = <<[ord |-> i, kind |-> "context", res |-> "text"]>>
    /\ EndsWithBlock(enhanced_entry, "facts", facts)

\* a step of a run after its start, other than the kill of the process
StepOfRun == pc \in {"loop", "facts", "save", "write", "move", "cleanup"} /\ pc' /= "killed"

(* C19: in the steps of a run, a key is added to the cache only together with
   a generator invocation of that key's kind that returned non-empty text,
   which is the text stored; a key in the cache keeps its text; and with a
   cache file configured, the file holds the whole cache after each
   addition. *)
C19_CacheMonotone ==
    [][StepOfRun =>
          /\ \A ck \in DOMAIN cache : ck \in DOMAIN cache' /\ cache'[ck] = cache[ck]
          /\ \A ck \in DOMAIN cache' \ DOMAIN cache :
                /\ Len(genLog') = Len(genLog) + 1
                /\ genLog'[Len(genLog')] = [ord |-> i, kind |-> ck[1], res |-> "text"]
                /\ cache'[ck] /= NoText
                /\ cache'[ck] = GenText(ck[1], ck[2])
          /\ (cache' /= cache /\ cacheFile.kind /= "unset") =>
                cacheFile' = [kind |-> "dict", data |-> cache']
          /\ cache' = cache => cacheFile' = cacheFile]_vars

C19_Witness ==
    /\ pc = "save"
    /\ cacheFile.kind = "dict"
    /\ cacheFile.data = cache
    /\ \E ck \in DOMAIN cache : cache[ck] = GenText(ck[1], ck[2])
    /\ \E ck \in DOMAIN cache : cache[ck] = CachedText(ck)
    /\ \E j \in 1..Len(genLog) : genLog[j].res \in {"raise", "empty"}

(* C20: the delay has been applied once for every generator invocation made
   so far, whether it returned text, returned empty text or raised, and a
   step without an invocation (a cache hit, a replay, a pass-through) applies
   none. *)
C20_OneDelayPerInvocation ==
    /\ [](sleeps = Len(genLog))
    /\ [][StepOfRun => (sleeps' - sleeps = Len(genLog') - Len(genLog)
                        /\ sleeps' - sleeps \in {0, 1})]_vars

C20_Witness ==
    /\ pc = "done"
    /\ sleeps = Len(genLog)
    /\ \E j \in 1..Len(genLog) : genLog[j].res = "raise"
    /\ \E j \in 1..Len(genLog) : genLog[j].res = "empty"
    /\ \E j \in 1..Len(genLog) : genLog[j].res = "text"

----------------------------------------------------------------------------
(* Claims about entries that share an Entry Key *)

\* text t is text own (stripped) followed by nothing but blank lines and blocks
OwnTextThenBlocks(t, own) ==
    /\ StartsWith(t, Strip(own))
    /\ \A j \in (Len(Strip(own)) + 1)..Len(t) : t[j][1] \in {"blank", "ctx", "facts"}

(* C21: the output of a run that found no progress file has, for every
   non-blank input entry and at its position, that entry's own text followed
   only by generated blocks, also when entries share an Entry Key. *)
C21_NoEntryBodyLost ==
    (pc = "done" /\ start.progress = "absent") =>
        LET nb == NonBlank(entries)
        IN /\ Len(OutputEntries) = Len(nb)
           /\ \A p \in 1..Len(nb) :
                 p <= Len(OutputEntries) => OwnTextThenBlocks(OutputEntries[p], nb[p])

\* the Entry Key the generator invocation j of the current run was made for
KeyOfCall(j) == get_entry_key(parse_entry_metadata(entries[genLog[j].ord]))

(* C22: within one run the generator is invoked at most once for each pair of
   Entry Key and content kind, however many entries share the key and however
   the invocation ended. *)
C22_OneInvocationPerKeyAndKind ==
    \A j1, j2 \in 1..Len(genLog) :
        (genLog[j1].kind = genLog[j2].kind /\ KeyOfCall(j1) = KeyOfCall(j2)) => j1 = j2

C22_Witness ==
    /\ pc = "done"
    /\ mode = "both"
    /\ Len(entries) = 2
    /\ KeyOrNone(entries[1]) = KeyA /\ KeyOrNone(entries[2]) = KeyA
    /\ entries[1] /= entries[2]
    /\ genLog = <<[ord |-> 1, kind |-> "context", res |-> "raise"],
                  [ord |-> 1, kind |-> "facts", res |-> "text"]>>
    /\ path = <<[how |-> "enriched", ord |-> 1], [how |-> "replay", ord |-> 2]>>

====
